---- MODULE Spec2Model ----
(***************************************************************************)
(* kgp: three scripts that turn a Kubernetes pod-list JSON document into   *)
(* a pod table and a container table.                                      *)
(*                                                                         *)
(*   process_pods.py          (definitions prefixed pods_)                 *)
(*   process_containers.py    (definitions prefixed containers_)           *)
(*   generate_cache_files.py  (definitions prefixed cache_)                *)
(*                                                                         *)
(* A JSON object is a function whose DOMAIN is the set of keys present, so *)
(* dict.get(k, default), "k in dict" and dict[k] keep their meaning; a     *)
(* JSON array is a sequence.  A timestamp is the integer number of seconds *)
(* its ISO-8601 string denotes; every timestamp present in a document is a *)
(* non-empty string, hence truthy.  The clock does not advance during a    *)
(* run: every datetime.now() of a run reads the same now.  Every container *)
(* of spec has its name and image and every status entry its name, the     *)
(* keys the scripts index without a default.                               *)
(***************************************************************************)
EXTENDS Integers, Sequences, FiniteSets, TLC

VARIABLES
    seconds,          \* argument handed to format_duration
    data,             \* the decoded pod-list document
    now,              \* datetime.now(timezone.utc), in seconds
    ran,              \* the operations that have produced their result
    pods_duration,    \* result of process_pods.format_duration(seconds)
    cache_duration,   \* result of generate_cache_files.format_duration(seconds)
    pods_output,      \* rows of process_pods.process_pods(data)
    cache_pods,       \* table_data of generate_cache_files.process_pods(data)
    cache_containers, \* table_data of generate_cache_files.process_containers(data)
    container_list,   \* rows process_containers.generate_container_list wrote
    exit_code         \* exit status of process_containers.generate_container_list

vars == <<seconds, data, now, ran, pods_duration, cache_duration, pods_output,
          cache_pods, cache_containers, container_list, exit_code>>

----------------------------------------------------------------------------
(* Python helpers *)

EmptyDict == <<>>

\* dict.get(k, default)
Get(d, k, default) == IF k \in DOMAIN d THEN d[k] ELSE default

\* truth value of a dict or list: non-empty
Truthy(d) == DOMAIN d # {}

\* the return value of a scan that fell through without returning
NoReturn == "<no return>"

\* "sub in s" for strings
Contains(s, sub) ==
    \E i \in 1..(Len(s) - Len(sub) + 1) : SubSeq(s, i, i + Len(sub) - 1) = sub

----------------------------------------------------------------------------
(* format_duration.  int(x / k) on the non-negative integers of the model  *)
(* is x \div k; for a negative x only int(x) is reached, which is x.       *)

pods_format_duration(s) ==
    IF s < 0 THEN "0s"
    ELSE IF s < 60 THEN ToString(s) \o "s"
    ELSE IF s < 3600 THEN ToString(s \div 60) \o "m" \o ToString(s % 60) \o "s"
    ELSE IF s < 86400
         THEN ToString(s \div 3600) \o "h" \o ToString((s % 3600) \div 60) \o "m"
    ELSE ToString(s \div 86400) \o "d" \o ToString((s % 86400) \div 3600) \o "h"

cache_format_duration(s) ==
    IF s < 60 THEN ToString(s) \o "s"
    ELSE IF s < 3600 THEN ToString(s \div 60) \o "m" \o ToString(s % 60) \o "s"
    ELSE IF s < 86400
         THEN ToString(s \div 3600) \o "h" \o ToString((s % 3600) \div 60) \o "m"
    ELSE ToString(s \div 86400) \o "d" \o ToString((s % 86400) \div 3600) \o "h"

----------------------------------------------------------------------------
(* process_pods.py: get_pod_status *)

\* the deletion marker never looked at
pods_is_deleting_never(pod) == FALSE

\* line 33: the pod is being deleted
pods_is_deleting(pod) == "deletionTimestamp" \in DOMAIN Get(pod, "metadata", EmptyDict)

\* lines 38-48: the loop over initContainerStatuses, from entry i (1-based
\* here, so enumerate's index is i - 1)
RECURSIVE pods_init_scan(_, _)
pods_init_scan(init_containers, i) ==
    IF i > Len(init_containers) THEN NoReturn
    ELSE LET state == Get(init_containers[i], "state", EmptyDict) IN
         IF "waiting" \in DOMAIN state
         THEN LET reason == Get(state["waiting"], "reason", "PodInitializing") IN
              IF reason = "PodInitializing"
              THEN "Init:" \o ToString(i - 1) \o "/" \o ToString(Len(init_containers))
              ELSE "Init:" \o reason
         ELSE IF "terminated" \in DOMAIN state
                 /\ Get(state["terminated"], "reason", "Error") # "Completed"
         THEN "Init:" \o Get(state["terminated"], "reason", "Error")
         ELSE pods_init_scan(init_containers, i + 1)

\* the loop over containerStatuses without its terminated branch
RECURSIVE pods_container_scan_waiting_only(_, _)
pods_container_scan_waiting_only(container_statuses, i) ==
    IF i > Len(container_statuses) THEN NoReturn
    ELSE LET state == Get(container_statuses[i], "state", EmptyDict) IN
         IF "running" \notin DOMAIN state /\ "waiting" \in DOMAIN state
            /\ "reason" \in DOMAIN state["waiting"] /\ state["waiting"]["reason"] # ""
         THEN state["waiting"]["reason"]
         ELSE pods_container_scan_waiting_only(container_statuses, i + 1)

\* lines 61-78: the loop over containerStatuses, from entry i; the running,
\* waiting and terminated counters are written and never read
RECURSIVE pods_container_scan(_, _)
pods_container_scan(container_statuses, i) ==
    IF i > Len(container_statuses) THEN NoReturn
    ELSE LET state == Get(container_statuses[i], "state", EmptyDict) IN
         IF "running" \in DOMAIN state
         THEN pods_container_scan(container_statuses, i + 1)
         ELSE IF "waiting" \in DOMAIN state
         THEN IF "reason" \in DOMAIN state["waiting"] /\ state["waiting"]["reason"] # ""
              THEN state["waiting"]["reason"]
              ELSE pods_container_scan(container_statuses, i + 1)
         ELSE IF "terminated" \in DOMAIN state
                 /\ Get(state["terminated"], "exitCode", 1) # 0
         THEN Get(state["terminated"], "reason", "Error")
         ELSE pods_container_scan(container_statuses, i + 1)

\* lines 62-63: ready, counted over containerStatuses
pods_ready_flags(container_statuses) ==
    Cardinality({i \in 1..Len(container_statuses) :
                    Get(container_statuses[i], "ready", FALSE)})

\* the status decided by the phase without the comparison of ready
pods_phase_status_always_running(phase, ready, reported) ==
    IF phase = "Running" THEN "Running"
    ELSE IF phase = "Succeeded" THEN "Completed"
    ELSE IF phase = "Failed" THEN "Error"
    ELSE phase

\* lines 81-91: the status decided by the phase
pods_phase_status(phase, ready, reported) ==
    IF phase = "Running" THEN (IF ready = reported THEN "Running" ELSE "NotReady")
    ELSE IF phase = "Succeeded" THEN "Completed"
    ELSE IF phase = "Failed" THEN "Error"
    ELSE phase

pods_get_pod_status(pod) ==
    LET status == Get(pod, "status", EmptyDict)
        phase == Get(status, "phase", "Unknown")
        init_containers == Get(status, "initContainerStatuses", <<>>)
        container_statuses == Get(status, "containerStatuses", <<>>)
        from_init == pods_init_scan(init_containers, 1)
        from_containers == pods_container_scan(container_statuses, 1)
    IN  IF pods_is_deleting(pod) THEN "Terminating"
        ELSE IF from_init # NoReturn THEN from_init
        ELSE IF container_statuses = <<>> /\ phase = "Pending" THEN "Pending"
        ELSE IF from_containers # NoReturn THEN from_containers
        ELSE pods_phase_status(phase, pods_ready_flags(container_statuses),
                               Len(container_statuses))

\* lines 94-111
pods_get_ready_count(pod) ==
    LET init_containers == Get(Get(pod, "status", EmptyDict), "initContainerStatuses", <<>>)
        container_statuses == Get(Get(pod, "status", EmptyDict), "containerStatuses", <<>>)
        completed == {i \in 1..Len(init_containers) :
                        LET state == Get(init_containers[i], "state", EmptyDict) IN
                        /\ "terminated" \in DOMAIN state
                        /\ "reason" \in DOMAIN state["terminated"]
                        /\ state["terminated"]["reason"] = "Completed"}
    IN  Cardinality(completed) + pods_ready_flags(container_statuses)

\* get_total_containers without the init containers
pods_get_total_containers_no_init(pod) ==
    Len(Get(Get(pod, "spec", EmptyDict), "containers", <<>>))

\* lines 114-119
pods_get_total_containers(pod) ==
    LET spec == Get(pod, "spec", EmptyDict) IN
    Len(Get(spec, "initContainers", <<>>)) + Len(Get(spec, "containers", <<>>))

\* sum(container.get("restartCount", 0) for container in ...)
RECURSIVE SumRestarts(_, _)
SumRestarts(container_statuses, i) ==
    IF i > Len(container_statuses) THEN 0
    ELSE Get(container_statuses[i], "restartCount", 0)
         + SumRestarts(container_statuses, i + 1)

\* lines 122-125
pods_get_restart_count(pod) ==
    SumRestarts(Get(Get(pod, "status", EmptyDict), "containerStatuses", <<>>), 1)

\* lines 128-154; t is datetime.now
pods_get_age(pod, t) ==
    LET metadata == Get(pod, "metadata", EmptyDict)
        status == Get(pod, "status", EmptyDict)
        age_seconds ==
            IF "deletionTimestamp" \in DOMAIN metadata
            THEN IF "startTime" \in DOMAIN status
                 THEN metadata["deletionTimestamp"] - status["startTime"]
                 ELSE IF "creationTimestamp" \in DOMAIN metadata
                 THEN metadata["deletionTimestamp"] - metadata["creationTimestamp"]
                 ELSE 0
            ELSE IF "creationTimestamp" \in DOMAIN metadata
                 THEN t - metadata["creationTimestamp"]
                 ELSE 0
    IN  pods_format_duration(age_seconds)

\* lines 162-171: one row; the tab-joined line keeps these fields in this
\* order, ready_display being "<ready_count>/<total_containers>"
pods_row(pod, t) ==
    LET ready_count == pods_get_ready_count(pod)
        total_containers == pods_get_total_containers(pod)
    IN  [name |-> Get(Get(pod, "metadata", EmptyDict), "name", "unknown"),
         ready_count |-> ready_count,
         total_containers |-> total_containers,
         ready_display |-> ToString(ready_count) \o "/" \o ToString(total_containers),
         status |-> pods_get_pod_status(pod),
         restarts |-> pods_get_restart_count(pod),
         age |-> pods_get_age(pod, t)]

\* lines 157-173: the rows, one per pod, in the order of items
pods_process_pods(pod_data, t) ==
    LET pods == Get(pod_data, "items", <<>>) IN
    [i \in 1..Len(pods) |-> pods_row(pods[i], t)]

----------------------------------------------------------------------------
(* generate_cache_files.py: the pod table *)

\* the loop over initContainerStatuses reading an absent terminated reason as
\* "Completed"
RECURSIVE cache_init_scan_absent_reason_completed(_, _)
cache_init_scan_absent_reason_completed(init_containers, i) ==
    IF i > Len(init_containers) THEN NoReturn
    ELSE LET state == Get(init_containers[i], "state", EmptyDict) IN
         IF "waiting" \in DOMAIN state
         THEN LET reason == Get(state["waiting"], "reason", "PodInitializing") IN
              IF reason = "PodInitializing"
              THEN "Init:" \o ToString(i - 1) \o "/" \o ToString(Len(init_containers))
              ELSE "Init:" \o reason
         ELSE IF "terminated" \in DOMAIN state
                 /\ Get(state["terminated"], "reason", "Completed") # "Completed"
         THEN "Init:" \o state["terminated"]["reason"]
         ELSE cache_init_scan_absent_reason_completed(init_containers, i + 1)

\* lines 66-76
RECURSIVE cache_init_scan(_, _)
cache_init_scan(init_containers, i) ==
    IF i > Len(init_containers) THEN NoReturn
    ELSE LET state == Get(init_containers[i], "state", EmptyDict) IN
         IF "waiting" \in DOMAIN state
         THEN LET reason == Get(state["waiting"], "reason", "PodInitializing") IN
              IF reason = "PodInitializing"
              THEN "Init:" \o ToString(i - 1) \o "/" \o ToString(Len(init_containers))
              ELSE "Init:" \o reason
         ELSE IF "terminated" \in DOMAIN state
                 /\ ~ ("reason" \in DOMAIN state["terminated"]
                       /\ state["terminated"]["reason"] = "Completed")
         THEN "Init:" \o Get(state["terminated"], "reason", "Error")
         ELSE cache_init_scan(init_containers, i + 1)

\* lines 82-91
RECURSIVE cache_container_scan(_, _)
cache_container_scan(container_statuses, i) ==
    IF i > Len(container_statuses) THEN NoReturn
    ELSE LET state == Get(container_statuses[i], "state", EmptyDict) IN
         IF "waiting" \in DOMAIN state
         THEN IF "reason" \in DOMAIN state["waiting"] /\ state["waiting"]["reason"] # ""
              THEN state["waiting"]["reason"]
              ELSE cache_container_scan(container_statuses, i + 1)
         ELSE IF "terminated" \in DOMAIN state
                 /\ Get(state["terminated"], "exitCode", 1) # 0
         THEN Get(state["terminated"], "reason", "Error")
         ELSE cache_container_scan(container_statuses, i + 1)

\* lines 56-100
cache_get_pod_status(pod) ==
    LET status == Get(pod, "status", EmptyDict)
        phase == Get(status, "phase", "Unknown")
        init_containers == Get(status, "initContainerStatuses", <<>>)
        container_statuses == Get(status, "containerStatuses", <<>>)
        ready_count == Cardinality({i \in 1..Len(container_statuses) :
                                      Get(container_statuses[i], "ready", FALSE)})
        from_init == cache_init_scan(init_containers, 1)
        from_containers == cache_container_scan(container_statuses, 1)
    IN  IF "deletionTimestamp" \in DOMAIN Get(pod, "metadata", EmptyDict)
        THEN "Terminating"
        ELSE IF from_init # NoReturn THEN from_init
        ELSE IF from_containers # NoReturn THEN from_containers
        ELSE IF phase = "Running"
             THEN (IF ready_count = Len(container_statuses) THEN "Running" ELSE "NotReady")
        ELSE IF phase = "Succeeded" THEN "Completed"
        ELSE IF phase = "Failed" THEN "Error"
        ELSE phase

\* lines 103-114; t is datetime.now
cache_get_pod_age(pod, t) ==
    LET metadata == Get(pod, "metadata", EmptyDict) IN
    IF "creationTimestamp" \in DOMAIN metadata
    THEN cache_format_duration(t - metadata["creationTimestamp"])
    ELSE "0s"

\* lines 22-24: a cell is the text between the escape code of its color and
\* the reset code
colorize(color, text) == [color |-> color, text |-> text]

\* lines 27-29
colorize_entire_row(color, row_data) ==
    [i \in 1..Len(row_data) |-> colorize(color, row_data[i])]

\* a cell written without any escape code
Plain(text) == [color |-> "NONE", text |-> text]

\* lines 117-124; "NONE" is Python's None
get_row_color_for_pod_status(status) ==
    IF \E s \in {"Error", "Failed", "CrashLoopBackOff"} : Contains(status, s)
    THEN "RED"
    ELSE IF \E s \in {"Completed", "Terminated", "Succeeded"} : Contains(status, s)
    THEN "GRAY"
    ELSE "NONE"

\* lines 127-134
get_row_color_for_container_status(status) ==
    IF status \in {"Error", "CrashLoopBackOff", "OOMKilled"} THEN "RED"
    ELSE IF status \in {"Completed", "Terminated"} THEN "GRAY"
    ELSE "NONE"

\* lines 142-196: one row of the pod table
cache_pod_row(pod, t) ==
    LET name == Get(Get(pod, "metadata", EmptyDict), "name", "unknown")
        spec == Get(pod, "spec", EmptyDict)
        status == Get(pod, "status", EmptyDict)
        total_containers ==
            Len(Get(spec, "initContainers", <<>>)) + Len(Get(spec, "containers", <<>>))
        init_statuses == Get(status, "initContainerStatuses", <<>>)
        container_statuses == Get(status, "containerStatuses", <<>>)
        ready_count ==
            Cardinality({i \in 1..Len(init_statuses) :
                           LET state == Get(init_statuses[i], "state", EmptyDict) IN
                           /\ "terminated" \in DOMAIN state
                           /\ "reason" \in DOMAIN state["terminated"]
                           /\ state["terminated"]["reason"] = "Completed"})
            + Cardinality({i \in 1..Len(container_statuses) :
                             Get(container_statuses[i], "ready", FALSE)})
        ready_display == ToString(ready_count) \o "/" \o ToString(total_containers)
        pod_status == cache_get_pod_status(pod)
        restarts == SumRestarts(container_statuses, 1)
        age == cache_get_pod_age(pod, t)
        row_data == <<name, ready_display, pod_status, ToString(restarts), age>>
        row_color == get_row_color_for_pod_status(pod_status)
    IN  [name |-> name,
         ready_count |-> ready_count,
         total_containers |-> total_containers,
         ready_display |-> ready_display,
         status |-> pod_status,
         restarts |-> restarts,
         age |-> age,
         colored_row |->
            IF row_color # "NONE"
            THEN colorize_entire_row(row_color, row_data)
            ELSE << colorize("WHITE", name),
                    colorize(IF ready_count = total_containers /\ total_containers > 0
                             THEN "GREEN" ELSE "YELLOW", ready_display),
                    colorize(IF pod_status = "Running" THEN "GREEN" ELSE "YELLOW",
                             pod_status),
                    colorize(IF restarts > 0 THEN "YELLOW" ELSE "WHITE",
                             ToString(restarts)),
                    Plain(age) >>]

\* lines 137-198
cache_process_pods(d, t) ==
    LET items == Get(d, "items", <<>>) IN
    [i \in 1..Len(items) |-> cache_pod_row(items[i], t)]

----------------------------------------------------------------------------
(* The container tables *)

\* {s["name"]: s for s in statuses}.get(name): the last entry of that name,
\* as an index into statuses; 0 when the name is not a key of the map
StatusIndex(statuses, name) ==
    LET hits == {i \in 1..Len(statuses) : statuses[i]["name"] = name} IN
    IF hits = {} THEN 0 ELSE CHOOSE i \in hits : \A j \in hits : j <= i

\* str(b).lower()
BoolStr(b) == IF b THEN "true" ELSE "false"

\* rows[1] \o rows[2] \o ... (list.extend, list.append in a loop)
RECURSIVE Flatten(_, _)
Flatten(rows, i) ==
    IF i > Len(rows) THEN <<>> ELSE rows[i] \o Flatten(rows, i + 1)

\* process_containers.py lines 7-24: <<ready, state_desc>>
containers_get_container_state_info(state) ==
    IF Truthy(Get(state, "running", EmptyDict)) THEN <<"true", "Running">>
    ELSE IF Truthy(Get(state, "waiting", EmptyDict))
    THEN <<"false", Get(state["waiting"], "reason", "Waiting")>>
    ELSE IF Truthy(Get(state, "terminated", EmptyDict))
    THEN LET reason == Get(state["terminated"], "reason", "Terminated") IN
         IF reason = "Completed" THEN <<"true", "Completed">>
         ELSE IF reason = "Error" THEN <<"false", "Error">>
         ELSE <<"false", reason>>
    ELSE <<"false", "Unknown">>

\* process_containers.py line 30 and line 70: pod["metadata"]["name"] raises
\* KeyError when either key is missing
containers_raises(pod) ==
    \/ "metadata" \notin DOMAIN pod
    \/ "name" \notin DOMAIN pod["metadata"]

\* process_containers.py lines 43-62: the row of one init container that has
\* a status
containers_init_row(pod_name, container, status) ==
    LET state == Get(status, "state", EmptyDict)
        info == containers_get_container_state_info(state)
        terminated == Get(state, "terminated", EmptyDict)
        ready == IF Truthy(terminated)
                 THEN (IF "reason" \in DOMAIN terminated
                          /\ terminated["reason"] = "Completed"
                       THEN "true" ELSE "false")
                 ELSE info[1]
    IN  [pod |-> pod_name, name |-> container["name"], kind |-> "init",
         ready |-> ready, state |-> info[2], image |-> container["image"]]

\* process_containers.py lines 27-64 (for a pod that does not raise)
containers_process_init_containers(pod) ==
    LET pod_name == pod["metadata"]["name"]
        init_containers == Get(Get(pod, "spec", EmptyDict), "initContainers", <<>>)
        init_statuses == Get(Get(pod, "status", EmptyDict), "initContainerStatuses", <<>>)
        Row(container) ==
            LET k == StatusIndex(init_statuses, container["name"]) IN
            IF k = 0 THEN <<>>
            ELSE <<containers_init_row(pod_name, container, init_statuses[k])>>
    IN  Flatten([i \in 1..Len(init_containers) |-> Row(init_containers[i])], 1)

\* process_containers.py lines 67-98 (for a pod that does not raise)
containers_process_regular_containers(pod) ==
    LET pod_name == pod["metadata"]["name"]
        containers == Get(Get(pod, "spec", EmptyDict), "containers", <<>>)
        container_statuses == Get(Get(pod, "status", EmptyDict), "containerStatuses", <<>>)
        Row(container) ==
            LET k == StatusIndex(container_statuses, container["name"]) IN
            IF k = 0 THEN <<>>
            ELSE LET status == container_statuses[k] IN
                 << [pod |-> pod_name, name |-> container["name"], kind |-> "container",
                     ready |-> BoolStr(Get(status, "ready", FALSE)),
                     state |-> containers_get_container_state_info(
                                   Get(status, "state", EmptyDict))[2],
                     image |-> container["image"]] >>
    IN  Flatten([i \in 1..Len(containers) |-> Row(containers[i])], 1)

\* process_containers.py lines 101-130, the input file read and decoded:
\* the rows written to the output file and the exit status.  An exception in
\* the loop is caught at line 128 before the output file is opened.
containers_generate_container_list(d) ==
    LET items == Get(d, "items", <<>>) IN
    IF \E i \in 1..Len(items) : containers_raises(items[i])
    THEN [exit_code |-> 1, rows |-> <<>>]
    ELSE [exit_code |-> 0,
          rows |-> Flatten([i \in 1..Len(items) |->
                              containers_process_init_containers(items[i])
                              \o containers_process_regular_containers(items[i])], 1)]

\* generate_cache_files.py lines 44-53: <<ready, state_desc>>
cache_get_container_state_info(state) ==
    IF Truthy(Get(state, "running", EmptyDict)) THEN <<"true", "Running">>
    ELSE IF Truthy(Get(state, "waiting", EmptyDict))
    THEN <<"false", Get(state["waiting"], "reason", "Waiting")>>
    ELSE IF Truthy(Get(state, "terminated", EmptyDict))
    THEN LET reason == Get(state["terminated"], "reason", "Terminated") IN
         <<IF reason = "Completed" THEN "true" ELSE "false", reason>>
    ELSE <<"false", "Unknown">>

\* generate_cache_files.py lines 229-249 and 263-283: a row and its cells
cache_container_row(pod_name, name, ready, state_desc, image) ==
    LET row_data == <<pod_name, name, ready, state_desc, image>>
        row_color == get_row_color_for_container_status(state_desc)
    IN  [pod |-> pod_name, name |-> name, ready |-> ready, state |-> state_desc,
         image |-> image,
         colored_row |->
            IF row_color # "NONE"
            THEN colorize_entire_row(row_color, row_data)
            ELSE << colorize("WHITE", pod_name),
                    colorize("WHITE", name),
                    colorize(IF ready = "true" THEN "GREEN" ELSE "RED", ready),
                    colorize(IF state_desc = "Running" THEN "GREEN" ELSE "YELLOW",
                             state_desc),
                    colorize("GRAY", image) >>]

\* generate_cache_files.py lines 214-249: the init containers of one pod
cache_init_rows(pod_name, spec, status) ==
    LET init_containers == Get(spec, "initContainers", <<>>)
        statuses == Get(status, "initContainerStatuses", <<>>)
        Row(container) ==
            LET k == StatusIndex(statuses, container["name"]) IN
            IF k = 0 THEN <<>>
            ELSE LET state == Get(statuses[k], "state", EmptyDict)
                     info == cache_get_container_state_info(state)
                     terminated == Get(state, "terminated", EmptyDict)
                     ready == IF "reason" \in DOMAIN terminated
                                 /\ terminated["reason"] = "Completed"
                              THEN "true" ELSE info[1]
                 IN  <<cache_container_row(pod_name, container["name"], ready,
                                           info[2], container["image"])>>
    IN  Flatten([i \in 1..Len(init_containers) |-> Row(init_containers[i])], 1)

\* generate_cache_files.py lines 252-283: the regular containers of one pod
cache_regular_rows(pod_name, spec, status) ==
    LET containers == Get(spec, "containers", <<>>)
        statuses == Get(status, "containerStatuses", <<>>)
        Row(container) ==
            LET k == StatusIndex(statuses, container["name"]) IN
            IF k = 0 THEN <<>>
            ELSE <<cache_container_row(
                     pod_name, container["name"],
                     BoolStr(Get(statuses[k], "ready", FALSE)),
                     cache_get_container_state_info(
                         Get(statuses[k], "state", EmptyDict))[2],
                     container["image"])>>
    IN  Flatten([i \in 1..Len(containers) |-> Row(containers[i])], 1)

\* generate_cache_files.py lines 201-285
cache_process_containers(d) ==
    LET items == Get(d, "items", <<>>)
        PodRows(pod) ==
            LET pod_name == Get(Get(pod, "metadata", EmptyDict), "name", "unknown")
                spec == Get(pod, "spec", EmptyDict)
                status == Get(pod, "status", EmptyDict)
            IN  cache_init_rows(pod_name, spec, status)
                \o cache_regular_rows(pod_name, spec, status)
    IN  Flatten([i \in 1..Len(items) |-> PodRows(items[i])], 1)

----------------------------------------------------------------------------
(* Inputs *)

MaxSeconds == 100000     \* durations up to 1d3h
MaxNegative == 3         \* durations down to -3 s (a creation time ahead of now)
MaxInit == 2             \* init container status entries of a pod
MaxContainers == 3       \* regular container status entries of a pod
MaxTime == 3             \* timestamps 0..MaxTime
MaxPods == 2             \* pods of a multi-pod document

\* the sequences over S of length at most n
SeqsUpTo(S, n) == UNION {[1..k -> S] : k \in 0..n}

\* a dict that has key k with a value of S, or has not
Optional(k, S) == {EmptyDict} \cup {k :> v : v \in S}

\* entry i of seq gets the name <prefix><i>
Named(prefix, seq) ==
    [i \in 1..Len(seq) |-> ("name" :> (prefix \o ToString(i))) @@ seq[i]]

\* the container specs <prefix>1 .. <prefix>n
ContainerSpecs(prefix, n) ==
    [i \in 1..n |-> [name |-> prefix \o ToString(i),
                     image |-> "img-" \o prefix \o ToString(i)]]

Running == [running |-> [startedAt |-> 0]]
Waiting(reason) == [waiting |-> [reason |-> reason]]
Terminated(reason, code) == [terminated |-> [reason |-> reason, exitCode |-> code]]

\* init container status entries (without their names)
InitEntries ==
    {[state |-> st] : st \in {Running,
                              Waiting("PodInitializing"),
                              Waiting("ImagePullBackOff"),
                              [waiting |-> EmptyDict],
                              Terminated("Completed", 0),
                              Terminated("Error", 1),
                              [terminated |-> [exitCode |-> 2]]}}

\* regular container status entries (without their names)
ContainerEntries ==
    {[ready |-> TRUE, restartCount |-> 0, state |-> Running],
     [ready |-> FALSE, restartCount |-> 0, state |-> Running],
     [ready |-> FALSE, restartCount |-> 2, state |-> Waiting("CrashLoopBackOff")],
     [ready |-> FALSE, state |-> [waiting |-> EmptyDict]],
     [ready |-> FALSE, restartCount |-> 1, state |-> Terminated("Error", 1)],
     [ready |-> FALSE, state |-> Terminated("Completed", 0)],
     [state |-> [terminated |-> [reason |-> "OOMKilled"]]]}

Phases == {"Pending", "Running", "Succeeded", "Failed"}

\* Pods that differ in what get_pod_status reads: the deletion marker, the
\* phase and the status entries; spec names the containers that report.
StatusPod(del, ph, is, cs) ==
    [metadata |-> [name |-> "web", creationTimestamp |-> 0] @@ del,
     spec |-> [initContainers |-> ContainerSpecs("i", Len(is)),
               containers |-> ContainerSpecs("c", Len(cs))],
     status |-> ph @@ [initContainerStatuses |-> Named("i", is),
                       containerStatuses |-> Named("c", cs)]]

\* ... up to MaxInit init entries of any kind, before no regular entry, a
\* ready one or a waiting one
InitStatusPods ==
    { StatusPod(del, ph, is, cs) :
      del \in Optional("deletionTimestamp", {MaxTime}),
      ph \in Optional("phase", Phases),
      is \in SeqsUpTo(InitEntries, MaxInit),
      cs \in {<<>>,
              <<[ready |-> TRUE, restartCount |-> 0, state |-> Running]>>,
              <<[ready |-> FALSE, restartCount |-> 2,
                 state |-> Waiting("CrashLoopBackOff")]>>} }

\* ... up to MaxContainers regular entries of any kind, and no init container
ContainerStatusPods ==
    { StatusPod(del, ph, <<>>, cs) :
      del \in Optional("deletionTimestamp", {MaxTime}),
      ph \in Optional("phase", Phases),
      cs \in SeqsUpTo(ContainerEntries, MaxContainers) }

StatusPods == InitStatusPods \cup ContainerStatusPods

\* Pods that differ in what the ready display reads: how many init containers
\* spec lists (or no spec at all), how many containers report a status, and
\* which of those count as ready.
CountPods ==
    UNION { { [metadata |-> [name |-> "web", creationTimestamp |-> 0]] @@ sp
              @@ [status |-> [phase |-> "Pending",
                              initContainerStatuses |-> Named("i", is),
                              containerStatuses |-> Named("c", cs)]] :
              is \in SeqsUpTo({[state |-> Running],
                               [state |-> Waiting("PodInitializing")],
                               [state |-> Terminated("Completed", 0)]}, MaxInit),
              sp \in {EmptyDict}
                     \cup {"spec" :> [initContainers |-> ContainerSpecs("i", n),
                                      containers |-> ContainerSpecs("c", Len(cs))] :
                           n \in 0..MaxInit} } :
            cs \in SeqsUpTo({[ready |-> TRUE, state |-> Running],
                             [ready |-> FALSE, state |-> Running]}, MaxContainers) }

\* Pods that differ in their timestamps.
AgePods ==
    { [metadata |-> ("name" :> "web") @@ cr @@ del,
       status |-> ("phase" :> "Running") @@ st] :
      cr \in Optional("creationTimestamp", 0..MaxTime),
      del \in Optional("deletionTimestamp", 0..MaxTime),
      st \in Optional("startTime", 0..MaxTime) }

\* Pods that differ in what the container tables read: the pod's name, the
\* containers spec lists, and the status entries paired with them by name
\* (c2 reports before c1; i1 reports in each kind of state or not at all).
ContainerPods ==
    { md @@ sp @@ st :
      md \in Optional("metadata", {EmptyDict, [name |-> "web"]}),
      sp \in Optional("spec", {[containers |-> ContainerSpecs("c", 2)],
                               [initContainers |-> ContainerSpecs("i", 1),
                                containers |-> ContainerSpecs("c", 1)]}),
      st \in Optional("status",
               {[containerStatuses |->
                     <<[name |-> "c1", ready |-> TRUE, state |-> Running]>>]}
               \cup {[initContainerStatuses |-> <<[name |-> "i1", state |-> is]>>,
                      containerStatuses |->
                         <<[name |-> "c2", ready |-> FALSE,
                            state |-> Waiting("CrashLoopBackOff")],
                           [name |-> "c1", ready |-> TRUE, state |-> Running]>>] :
                     is \in {EmptyDict, Running, Waiting("PodInitializing"),
                             Terminated("Completed", 0), Terminated("Error", 1)}}) }

Document(items) == [items |-> items]

----------------------------------------------------------------------------
(* Operations *)

Idle(d, t, s) ==
    /\ data = d /\ now = t /\ seconds = s
    /\ ran = {}
    /\ pods_duration = "" /\ cache_duration = ""
    /\ pods_output = <<>> /\ cache_pods = <<>> /\ cache_containers = <<>>
    /\ container_list = <<>> /\ exit_code = 0

\* process_pods.format_duration(seconds)
FormatDuration ==
    /\ pods_duration' = pods_format_duration(seconds)
    /\ ran' = ran \cup {"pods.format_duration"}
    /\ UNCHANGED <<seconds, data, now, cache_duration, pods_output, cache_pods,
                   cache_containers, container_list, exit_code>>

\* generate_cache_files.format_duration(seconds)
CacheFormatDuration ==
    /\ cache_duration' = cache_format_duration(seconds)
    /\ ran' = ran \cup {"cache.format_duration"}
    /\ UNCHANGED <<seconds, data, now, pods_duration, pods_output, cache_pods,
                   cache_containers, container_list, exit_code>>

\* process_pods.process_pods(data)
ProcessPods ==
    /\ pods_output' = pods_process_pods(data, now)
    /\ ran' = ran \cup {"pods.process_pods"}
    /\ UNCHANGED <<seconds, data, now, pods_duration, cache_duration, cache_pods,
                   cache_containers, container_list, exit_code>>

\* generate_cache_files.process_pods(data)
CacheProcessPods ==
    /\ cache_pods' = cache_process_pods(data, now)
    /\ ran' = ran \cup {"cache.process_pods"}
    /\ UNCHANGED <<seconds, data, now, pods_duration, cache_duration, pods_output,
                   cache_containers, container_list, exit_code>>

\* generate_cache_files.process_containers(data)
CacheProcessContainers ==
    /\ cache_containers' = cache_process_containers(data)
    /\ ran' = ran \cup {"cache.process_containers"}
    /\ UNCHANGED <<seconds, data, now, pods_duration, cache_duration, pods_output,
                   cache_pods, container_list, exit_code>>

\* process_containers.generate_container_list(input_file, output_file)
GenerateContainerList ==
    /\ LET result == containers_generate_container_list(data) IN
       /\ container_list' = result.rows
       /\ exit_code' = result.exit_code
    /\ ran' = ran \cup {"containers.generate_container_list"}
    /\ UNCHANGED <<seconds, data, now, pods_duration, cache_duration, pods_output,
                   cache_pods, cache_containers>>

----------------------------------------------------------------------------
(* Specifications *)

\* format_duration on every duration of -MaxNegative..MaxSeconds
InitDuration ==
    \E s \in (0 - MaxNegative)..MaxSeconds : Idle(Document(<<>>), 0, s)

NextDuration == FormatDuration \/ CacheFormatDuration

SpecDuration == InitDuration /\ [][NextDuration]_vars

\* the pod table of every one-pod document over StatusPods, CountPods and
\* AgePods
InitPods ==
    \/ \E pod \in StatusPods \cup CountPods : Idle(Document(<<pod>>), MaxTime, 0)
    \/ \E pod \in AgePods, t \in 0..MaxTime : Idle(Document(<<pod>>), t, 0)

NextPods == ProcessPods \/ CacheProcessPods

SpecPods == InitPods /\ [][NextPods]_vars

\* the container table of every document of at most MaxPods pods over
\* ContainerPods
InitContainers ==
    \E items \in SeqsUpTo(ContainerPods, MaxPods) : Idle(Document(items), 0, 0)

NextContainers == GenerateContainerList \/ CacheProcessContainers

SpecContainers == InitContainers /\ [][NextContainers]_vars

----------------------------------------------------------------------------
(* What the claims read *)

Items == Get(data, "items", <<>>)

\* the pod tables produced so far
PodTables ==
    (IF "pods.process_pods" \in ran THEN {pods_output} ELSE {})
    \cup (IF "cache.process_pods" \in ran THEN {cache_pods} ELSE {})

BothPodTables == {"pods.process_pods", "cache.process_pods"} \subseteq ran

Metadata(pod) == Get(pod, "metadata", EmptyDict)
InitStatuses(pod) == Get(Get(pod, "status", EmptyDict), "initContainerStatuses", <<>>)
ContainerStatuses(pod) == Get(Get(pod, "status", EmptyDict), "containerStatuses", <<>>)
InitSpecs(pod) == Get(Get(pod, "spec", EmptyDict), "initContainers", <<>>)
ContainerSpecsOf(pod) == Get(Get(pod, "spec", EmptyDict), "containers", <<>>)
StateOf(entry) == Get(entry, "state", EmptyDict)

HasDeletionMarker(pod) == "deletionTimestamp" \in DOMAIN Metadata(pod)

IsWaiting(entry) == "waiting" \in DOMAIN StateOf(entry)
IsTerminated(entry) == "terminated" \in DOMAIN StateOf(entry)
IsCompleted(entry) ==
    /\ IsTerminated(entry)
    /\ "reason" \in DOMAIN StateOf(entry)["terminated"]
    /\ StateOf(entry)["terminated"]["reason"] = "Completed"
IsReady(entry) == Get(entry, "ready", FALSE)

\* containers listed in spec, and status entries reported
SpecCount(pod) == Len(InitSpecs(pod)) + Len(ContainerSpecsOf(pod))
StatusCount(pod) == Len(InitStatuses(pod)) + Len(ContainerStatuses(pod))

----------------------------------------------------------------------------
(* C1 *)

\* C1 as stated: in every pod row the ready-count is between 0 and the
\* total-container-count, the number of containers spec lists, however many
\* status entries the pod reports.
C1_ReadyWithinTotal ==
    \A T \in PodTables : \A i \in 1..Len(Items) :
        /\ T[i].total_containers = SpecCount(Items[i])
        /\ 0 <= T[i].ready_count
        /\ T[i].ready_count <= T[i].total_containers

\* C1 amended: in every pod row the total is the number of containers spec
\* lists and the ready-count is between 0 and the number of status entries the
\* pod reports; so the ready-count is at most the total for every pod that
\* reports no more status entries than spec lists containers.
C1_ReadyWithinReported ==
    \A T \in PodTables : \A i \in 1..Len(Items) :
        /\ T[i].total_containers = SpecCount(Items[i])
        /\ T[i].ready_display
             = ToString(T[i].ready_count) \o "/" \o ToString(SpecCount(Items[i]))
        /\ 0 <= T[i].ready_count
        /\ T[i].ready_count <= StatusCount(Items[i])
        /\ StatusCount(Items[i]) <= SpecCount(Items[i])
             => T[i].ready_count <= T[i].total_containers

\* a pod with containers that report no status shows fewer ready than total,
\* in both tables
C1_Witness ==
    /\ BothPodTables
    /\ \E i \in 1..Len(Items) :
        /\ StatusCount(Items[i]) < SpecCount(Items[i])
        /\ \E e \in 1..Len(InitStatuses(Items[i])) : IsCompleted(InitStatuses(Items[i])[e])
        /\ \E e \in 1..Len(ContainerStatuses(Items[i])) :
              IsReady(ContainerStatuses(Items[i])[e])
        /\ \A T \in PodTables :
              T[i].ready_count >= 2 /\ T[i].ready_count < T[i].total_containers

----------------------------------------------------------------------------
(* C2 *)

\* C2: a pod whose metadata carries a deletionTimestamp has status
\* "Terminating" in both pod tables, whatever its phase and its init and
\* regular container statuses are.
C2_DeletionMeansTerminating ==
    \A T \in PodTables : \A i \in 1..Len(Items) :
        HasDeletionMarker(Items[i]) => T[i].status = "Terminating"

\* a pod being deleted whose init container and regular container are both
\* waiting, reported as Terminating by both tables
C2_Witness ==
    /\ BothPodTables
    /\ \E i \in 1..Len(Items) :
        /\ HasDeletionMarker(Items[i])
        /\ Get(Get(Items[i], "status", EmptyDict), "phase", "Unknown") = "Failed"
        /\ \E e \in 1..Len(InitStatuses(Items[i])) : IsWaiting(InitStatuses(Items[i])[e])
        /\ \E e \in 1..Len(ContainerStatuses(Items[i])) :
              IsWaiting(ContainerStatuses(Items[i])[e])
        /\ \A T \in PodTables : T[i].status = "Terminating"

----------------------------------------------------------------------------
(* C5 *)

PhaseOf(pod) == Get(Get(pod, "status", EmptyDict), "phase", "Unknown")

\* no init container status is Waiting or Terminated without "Completed"
NoInitRule(pod) ==
    \A e \in 1..Len(InitStatuses(pod)) :
        /\ ~ IsWaiting(InitStatuses(pod)[e])
        /\ IsTerminated(InitStatuses(pod)[e]) => IsCompleted(InitStatuses(pod)[e])

\* a regular container status that is Waiting with a reason
WaitsWithReason(entry) ==
    /\ IsWaiting(entry)
    /\ Get(StateOf(entry)["waiting"], "reason", "") # ""

\* a regular container status that is Terminated with an exit code other than
\* 0 (an absent exit code reads as 1)
FailedExit(entry) ==
    /\ IsTerminated(entry)
    /\ Get(StateOf(entry)["terminated"], "exitCode", 1) # 0

NoContainerRule(pod) ==
    \A e \in 1..Len(ContainerStatuses(pod)) :
        /\ ~ WaitsWithReason(ContainerStatuses(pod)[e])
        /\ ~ FailedExit(ContainerStatuses(pod)[e])

AllReported(pod) ==
    \A e \in 1..Len(ContainerStatuses(pod)) : IsReady(ContainerStatuses(pod)[e])

\* C5: with no deletion marker, no init-container rule and no regular-container
\* Waiting/Terminated rule matching, both pod tables show "Running" for phase
\* Running with every reported regular container ready, "NotReady" for phase
\* Running otherwise, "Completed" for Succeeded, "Error" for Failed, and the
\* raw phase ("Unknown" when absent) for anything else.
C5_PhaseFallback ==
    \A T \in PodTables : \A i \in 1..Len(Items) :
        (~ HasDeletionMarker(Items[i]) /\ NoInitRule(Items[i])
         /\ NoContainerRule(Items[i]))
        => T[i].status =
             CASE PhaseOf(Items[i]) = "Running" /\ AllReported(Items[i]) -> "Running"
               [] PhaseOf(Items[i]) = "Running" /\ ~ AllReported(Items[i]) -> "NotReady"
               [] PhaseOf(Items[i]) = "Succeeded" -> "Completed"
               [] PhaseOf(Items[i]) = "Failed" -> "Error"
               [] OTHER -> PhaseOf(Items[i])

\* a Running pod with 2 of 3 regular containers ready, shown as NotReady by
\* both tables
C5_Witness ==
    /\ BothPodTables
    /\ \E i \in 1..Len(Items) :
        /\ ~ HasDeletionMarker(Items[i])
        /\ NoInitRule(Items[i]) /\ NoContainerRule(Items[i])
        /\ PhaseOf(Items[i]) = "Running"
        /\ Len(ContainerStatuses(Items[i])) = 3
        /\ Cardinality({e \in 1..3 : IsReady(ContainerStatuses(Items[i])[e])}) = 2
        /\ \A T \in PodTables : T[i].status = "NotReady"

----------------------------------------------------------------------------
(* C9 *)

Waiters(pod) ==
    {e \in 1..Len(ContainerStatuses(pod)) : IsWaiting(ContainerStatuses(pod)[e])}

Failures(pod) ==
    {e \in 1..Len(ContainerStatuses(pod)) : FailedExit(ContainerStatuses(pod)[e])}

\* the regular container statuses that decide the status on their own
Deciders(pod) ==
    {e \in 1..Len(ContainerStatuses(pod)) :
        \/ WaitsWithReason(ContainerStatuses(pod)[e])
        \/ FailedExit(ContainerStatuses(pod)[e])}

First(S) == CHOOSE e \in S : \A f \in S : e <= f

WaitingReason(entry) == StateOf(entry)["waiting"]["reason"]
TerminatedReason(entry) == Get(StateOf(entry)["terminated"], "reason", "Error")

\* C9 as stated: with no deletion marker and an init scan that returns nothing,
\* the status is the reason of the first Waiting regular container whenever
\* one is Waiting (with a reason to return), and the reason of a container
\* Terminated with a non-zero exit code only when none is Waiting.
C9_WaitingBeforeTerminated ==
    \A T \in PodTables : \A i \in 1..Len(Items) :
        (~ HasDeletionMarker(Items[i]) /\ NoInitRule(Items[i]))
        => /\ (Waiters(Items[i]) # {}
               /\ WaitsWithReason(ContainerStatuses(Items[i])[First(Waiters(Items[i]))]))
              => T[i].status
                   = WaitingReason(ContainerStatuses(Items[i])[First(Waiters(Items[i]))])
           /\ (Waiters(Items[i]) = {} /\ Failures(Items[i]) # {})
              => T[i].status
                   = TerminatedReason(ContainerStatuses(Items[i])[First(Failures(Items[i]))])

\* C9 amended: with no deletion marker and an init scan that returns nothing,
\* the status is decided by the first regular container status, in status
\* order, that is Waiting with a non-empty reason (its reason, verbatim) or
\* Terminated with an exit code other than 0 (its reason, "Error" when it has
\* none); which of the two kinds it is does not matter.
C9_FirstDeciderWins ==
    \A T \in PodTables : \A i \in 1..Len(Items) :
        (~ HasDeletionMarker(Items[i]) /\ NoInitRule(Items[i])
         /\ Deciders(Items[i]) # {})
        => LET entry == ContainerStatuses(Items[i])[First(Deciders(Items[i]))] IN
           T[i].status = IF IsWaiting(entry) THEN WaitingReason(entry)
                         ELSE TerminatedReason(entry)

\* a container Terminated with exit code 1 reported before a Waiting one: both
\* tables show the Terminated container's reason
C9_Witness ==
    /\ BothPodTables
    /\ \E i \in 1..Len(Items) :
        /\ ~ HasDeletionMarker(Items[i]) /\ NoInitRule(Items[i])
        /\ Waiters(Items[i]) # {} /\ Failures(Items[i]) # {}
        /\ First(Failures(Items[i])) < First(Waiters(Items[i]))
        /\ WaitsWithReason(ContainerStatuses(Items[i])[First(Waiters(Items[i]))])
        /\ \A T \in PodTables :
              T[i].status
                = TerminatedReason(ContainerStatuses(Items[i])[First(Failures(Items[i]))])

----------------------------------------------------------------------------
(* C10 *)

\* the status entry paired by name with an init container of spec, as an
\* index into the init container statuses (0: none)
PairedInitStatus(pod, k) == StatusIndex(InitStatuses(pod), InitSpecs(pod)[k]["name"])

\* the init containers of spec at which a scan in spec order stops: the
\* paired status is Waiting, or Terminated without "Completed"
InitStops(pod) ==
    {k \in 1..Len(InitSpecs(pod)) :
        /\ PairedInitStatus(pod, k) # 0
        /\ LET entry == InitStatuses(pod)[PairedInitStatus(pod, k)] IN
           \/ IsWaiting(entry)
           \/ IsTerminated(entry) /\ ~ IsCompleted(entry)}

\* C10: with no deletion marker, when the scan of the init containers in spec
\* order first stops at one that is Waiting with reason "PodInitializing", the
\* status is "Init:<k>/<n>", k the number of init containers before it and n
\* the number of init containers of the pod.
C10_InitProgressLabel ==
    \A T \in PodTables : \A i \in 1..Len(Items) :
        (~ HasDeletionMarker(Items[i]) /\ InitStops(Items[i]) # {})
        => LET k == First(InitStops(Items[i]))
               entry == InitStatuses(Items[i])[PairedInitStatus(Items[i], k)]
           IN  (IsWaiting(entry)
                /\ Get(StateOf(entry)["waiting"], "reason", "") = "PodInitializing")
               => T[i].status = "Init:" \o ToString(k - 1) \o "/"
                                \o ToString(Len(InitSpecs(Items[i])))

----------------------------------------------------------------------------
(* C7 *)

\* the pod has the timestamps the claimed age is computed from
AgeDefined(pod) ==
    IF HasDeletionMarker(pod)
    THEN "startTime" \in DOMAIN Get(pod, "status", EmptyDict)
         \/ "creationTimestamp" \in DOMAIN Metadata(pod)
    ELSE "creationTimestamp" \in DOMAIN Metadata(pod)

\* the claimed age in seconds: the lifespan of a pod with a deletion marker,
\* the time since creation of any other
ClaimedAgeSeconds(pod, t) ==
    IF HasDeletionMarker(pod)
    THEN Metadata(pod)["deletionTimestamp"]
         - (IF "startTime" \in DOMAIN Get(pod, "status", EmptyDict)
            THEN pod["status"]["startTime"]
            ELSE Metadata(pod)["creationTimestamp"])
    ELSE t - Metadata(pod)["creationTimestamp"]

\* C7: in both pod tables the age of a pod with a deletion marker is
\* format_duration(deletionTimestamp - startTime), creationTimestamp standing
\* in for an absent startTime, and the age of any other pod is
\* format_duration(now - creationTimestamp); each table formats with the
\* format_duration of its own file.
C7_AgeIsLifespanWhenDeleted ==
    \A i \in 1..Len(Items) :
        AgeDefined(Items[i])
        => /\ "pods.process_pods" \in ran
              => pods_output[i].age
                   = pods_format_duration(ClaimedAgeSeconds(Items[i], now))
           /\ "cache.process_pods" \in ran
              => cache_pods[i].age
                   = cache_format_duration(ClaimedAgeSeconds(Items[i], now))

\* process_pods.py alone computes the claimed age
C7_PodsAgeIsLifespanWhenDeleted ==
    \A i \in 1..Len(Items) :
        (AgeDefined(Items[i]) /\ "pods.process_pods" \in ran)
        => pods_output[i].age = pods_format_duration(ClaimedAgeSeconds(Items[i], now))

----------------------------------------------------------------------------
(* The container tables the claims read *)

\* the container tables produced so far
ContainerTables ==
    (IF "containers.generate_container_list" \in ran THEN {container_list} ELSE {})
    \cup (IF "cache.process_containers" \in ran THEN {cache_containers} ELSE {})

\* the containers of a list of spec that have a status entry of their name,
\* in spec order, each with that entry
Reported(pod, kind, specs, statuses) ==
    Flatten([k \in 1..Len(specs) |->
               IF StatusIndex(statuses, specs[k]["name"]) = 0 THEN <<>>
               ELSE << [pod |-> Get(Metadata(pod), "name", "unknown"),
                        name |-> specs[k]["name"],
                        kind |-> kind,
                        entry |-> statuses[StatusIndex(statuses, specs[k]["name"])]] >>],
            1)

\* the rows claimed of a document: pods in document order, the init
\* containers of each before its regular containers
ClaimedRows ==
    Flatten([i \in 1..Len(Items) |->
               Reported(Items[i], "init", InitSpecs(Items[i]), InitStatuses(Items[i]))
               \o Reported(Items[i], "container", ContainerSpecsOf(Items[i]),
                           ContainerStatuses(Items[i]))],
            1)

----------------------------------------------------------------------------
(* C3 *)

\* C3: in both container tables an init container row has readiness "true" if
\* and only if its status is Terminated with reason "Completed".
C3_InitReadyIffCompleted ==
    \A T \in ContainerTables :
        Len(T) = Len(ClaimedRows)
        => \A r \in 1..Len(T) :
              ClaimedRows[r].kind = "init"
              => (T[r].ready = "true" <=> IsCompleted(ClaimedRows[r].entry))

----------------------------------------------------------------------------
(* C6 *)

\* C6: each container table holds exactly the rows of the spec containers
\* that have a status entry of their name: pods in document order, within a
\* pod the init containers in spec order, then the regular containers in spec
\* order.
C6_RowsFollowSpecOrder ==
    \A T \in ContainerTables :
        /\ Len(T) = Len(ClaimedRows)
        /\ \A r \in 1..Len(T) :
              T[r].pod = ClaimedRows[r].pod /\ T[r].name = ClaimedRows[r].name

\* the same of the runs that produce a table: generate_cache_files.py always,
\* process_containers.py when it exits 0
C6_RowsFollowSpecOrderOnExit0 ==
    LET Follows(T) ==
            /\ Len(T) = Len(ClaimedRows)
            /\ \A r \in 1..Len(T) :
                  T[r].pod = ClaimedRows[r].pod /\ T[r].name = ClaimedRows[r].name
    IN  /\ "cache.process_containers" \in ran => Follows(cache_containers)
        /\ ("containers.generate_container_list" \in ran /\ exit_code = 0)
           => Follows(container_list)

----------------------------------------------------------------------------
(* C8 *)

\* C8: on a valid document with optional fields missing the container report
\* of process_containers.py completes with exit status 0.
C8_MissingFieldsAreNotErrors ==
    "containers.generate_container_list" \in ran => exit_code = 0

----------------------------------------------------------------------------
(* C4 *)

\* the format claimed of a duration of d seconds
ReferenceDuration(d) ==
    LET c == IF d < 0 THEN 0 ELSE d IN
    IF c < 60 THEN ToString(c) \o "s"
    ELSE IF c < 3600 THEN ToString(c \div 60) \o "m" \o ToString(c % 60) \o "s"
    ELSE IF c < 86400
         THEN ToString(c \div 3600) \o "h" \o ToString((c % 3600) \div 60) \o "m"
    ELSE ToString(c \div 86400) \o "d" \o ToString((c % 86400) \div 3600) \o "h"

\* C4: format_duration of process_pods.py and of generate_cache_files.py both
\* return the claimed format of every integer duration, a negative one
\* formatted as zero.
C4_FormatDurationMatchesReference ==
    /\ "pods.format_duration" \in ran => pods_duration = ReferenceDuration(seconds)
    /\ "cache.format_duration" \in ran => cache_duration = ReferenceDuration(seconds)

\* the same of process_pods.py alone, and of generate_cache_files.py on the
\* durations that are not negative
C4_FormatDurationMatchesReferenceFromZero ==
    /\ "pods.format_duration" \in ran => pods_duration = ReferenceDuration(seconds)
    /\ ("cache.format_duration" \in ran /\ seconds >= 0)
       => cache_duration = ReferenceDuration(seconds)

----------------------------------------------------------------------------
(* C11 *)

\* the labels that make a row RED, and those that make it GRAY
RedLabels == {"Error", "Failed", "CrashLoopBackOff", "OOMKilled"}
GrayLabels == {"Completed", "Terminated", "Succeeded"}

ContainsAny(label, S) == \E s \in S : Contains(label, s)

\* every cell of the row has that color
WholeRow(cells, color) == \A k \in 1..Len(cells) : cells[k].color = color

\* the coloring claimed of a row with that label
ClaimedRowColor(label, cells) ==
    /\ ContainsAny(label, RedLabels) => WholeRow(cells, "RED")
    /\ (~ContainsAny(label, RedLabels) /\ ContainsAny(label, GrayLabels))
       => WholeRow(cells, "GRAY")

\* C11: in the pod table and in the container table of generate_cache_files.py
\* every row whose label contains Error, Failed, CrashLoopBackOff or OOMKilled
\* is RED in every cell, and a row whose label contains none of these and
\* contains Completed, Terminated or Succeeded is GRAY in every cell.
C11_RowColorFollowsLabel ==
    /\ \A i \in 1..Len(cache_pods) :
         ClaimedRowColor(cache_pods[i].status, cache_pods[i].colored_row)
    /\ \A i \in 1..Len(cache_containers) :
         ClaimedRowColor(cache_containers[i].state, cache_containers[i].colored_row)

\* the same of the pod table alone, on the labels that do not contain
\* OOMKilled
C11_PodRowColorFollowsLabelButOOMKilled ==
    \A i \in 1..Len(cache_pods) :
        ~Contains(cache_pods[i].status, "OOMKilled")
        => ClaimedRowColor(cache_pods[i].status, cache_pods[i].colored_row)

\* a pod row whose label contains Error has been written RED in every cell
C11_RedPodRowWritten ==
    /\ "cache.process_pods" \in ran
    /\ Len(cache_pods) = 1
    /\ cache_pods[1].status = "Init:Error"
    /\ WholeRow(cache_pods[1].colored_row, "RED")

----------------------------------------------------------------------------
(* C12 *)

\* C12: get_pod_status of process_pods.py and get_pod_status of
\* generate_cache_files.py return the same status label for every pod: the
\* status columns of the two pod tables of a document are equal row by row.
C12_SameStatusLabel ==
    BothPodTables
    => /\ Len(pods_output) = Len(cache_pods)
       /\ \A i \in 1..Len(Items) : pods_output[i].status = cache_pods[i].status

\* some init container status is Terminated without a reason
C12_InitTerminatedWithoutReason ==
    \E i \in 1..Len(Items) : \E e \in 1..Len(InitStatuses(Items[i])) :
        /\ IsTerminated(InitStatuses(Items[i])[e])
        /\ "reason" \notin DOMAIN StateOf(InitStatuses(Items[i])[e])["terminated"]

\* some regular container status is Waiting without a reason and a later one
\* is Terminated without an exit code
C12_WaitingWithoutReasonThenNoExitCode ==
    \E i \in 1..Len(Items) : \E e, f \in 1..Len(ContainerStatuses(Items[i])) :
        /\ e < f
        /\ IsWaiting(ContainerStatuses(Items[i])[e])
        /\ "reason" \notin DOMAIN StateOf(ContainerStatuses(Items[i])[e])["waiting"]
        /\ IsTerminated(ContainerStatuses(Items[i])[f])
        /\ "exitCode" \notin DOMAIN StateOf(ContainerStatuses(Items[i])[f])["terminated"]

\* both tables have been written for a pod without a deletion marker, of
\* phase Pending, with no regular container status and with its init
\* containers completed, and both show "Pending"
C12_Witness ==
    /\ BothPodTables
    /\ Len(Items) = 1
    /\ ~ HasDeletionMarker(Items[1])
    /\ PhaseOf(Items[1]) = "Pending"
    /\ ContainerStatuses(Items[1]) = <<>>
    /\ Len(InitStatuses(Items[1])) = MaxInit
    /\ NoInitRule(Items[1])
    /\ pods_output[1].status = "Pending"
    /\ cache_pods[1].status = "Pending"

\* both tables have been written for a pod with an init container Terminated
\* without a reason, and both show "Init:Error"
C12_InitTerminatedWithoutReasonWritten ==
    /\ BothPodTables
    /\ ~ HasDeletionMarker(Items[1])
    /\ C12_InitTerminatedWithoutReason
    /\ pods_output[1].status = "Init:Error"
    /\ cache_pods[1].status = "Init:Error"

\* both tables have been written for a pod with a regular container Waiting
\* without a reason before one Terminated without an exit code, and both show
\* the reason of the latter
C12_WaitingWithoutReasonThenNoExitCodeWritten ==
    /\ BothPodTables
    /\ ~ HasDeletionMarker(Items[1])
    /\ C12_WaitingWithoutReasonThenNoExitCode
    /\ pods_output[1].status = "OOMKilled"
    /\ cache_pods[1].status = "OOMKilled"

====
